---- MODULE Spec2Model ----
(* Gate-access backend (src/server.js): the visitor registry             *)
(* (POST /visitor-request, PUT /update-visitor-target,                    *)
(* PUT /visitor-response) over the Visitor collection, with the resident  *)
(* lookup and the calls of sendPushNotification each handler makes; the   *)
(* announcement route, the push-token routes and the notification sender, *)
(* handler by handler and, for the notifying routes, await by await.      *)
EXTENDS Integers, Sequences, FiniteSets, TLC

(* ---------------------------------------------------------------------- *)
(* Bounds                                                                 *)
(* ---------------------------------------------------------------------- *)
MaxVisitors == 1
MaxClock == 2
MaxAnnouncements == 1

(* ---------------------------------------------------------------------- *)
(* Values                                                                 *)
(* ---------------------------------------------------------------------- *)
\* a field the request body or the stored document does not carry (undefined)
Absent == "absent"
\* pushToken: { type: String, default: null }
Null == "null"
\* a Date field that is not set (approvalTime has no default)
NoTime == -1
\* an id string that does not cast to an ObjectId (findByIdAndUpdate rejects
\* with a CastError)
MalformedId == 0
\* the id field missing from the request body
AbsentId == -2

Flats == {"F1", "F2"}
Purposes == {"p1", "p2"}
\* visitorSchema.status is a plain String: no enum restricts it
StatusValues == {"Pending", "Approved", "Rejected", "Other"}
Times == 0..MaxClock

\* The user directory (userSchema), in the collection's natural order.
Directory ==
  << [role |-> "guard",    flatNumber |-> "F1",   pushToken |-> "tokG"],
     [role |-> "resident", flatNumber |-> "F1",   pushToken |-> "tokA"],
     [role |-> "resident", flatNumber |-> "F1",   pushToken |-> Null],
     [role |-> "resident", flatNumber |-> "F2",   pushToken |-> "tokB"] >>

VARIABLES
  visitors,    \* the Visitor collection: documents in insertion order, _id = index
  users,       \* the User collection
  now,         \* the clock read by Date.now / new Date()
  last,        \* the last request handled and the response sent for it
  dispatched,  \* users for whose token the last handler called sendPushNotification
  announcements, \* the Announcement collection, in insertion order
  inflight,    \* the notifying request being handled, and the await it stands at
  calls        \* the calls of sendPushNotification made for that request, in order

vars == <<visitors, users, now, last, dispatched, announcements, inflight, calls>>

\* what the handlers that run in one piece leave alone
stepvars == <<announcements, inflight, calls>>

\* ids handed out by the store: the n-th saved document gets id n
VisitorIds == 1..Len(visitors)
\* ids a client can send
RequestIds == (1..(MaxVisitors + 1)) \cup {MalformedId, AbsentId}

NoData == << >>

\* What the handler read from req.body, what it answered (status code, the
\* document in "data") and the addressed document as it was before the call.
Response(op, req, fault, code, data, prev) ==
  [op |-> op, id |-> req.id, flatNumber |-> req.flatNumber, status |-> req.status,
   mobile |-> req.mobile, fault |-> fault, code |-> code, data |-> data,
   prev |-> prev]

(* ---------------------------------------------------------------------- *)
(* new Visitor(req.body): every schema path the body carries is taken     *)
(* from the body, the others get the schema defaults.                     *)
(* ---------------------------------------------------------------------- *)
NewVisitor(body) ==
  [name         |-> body.name,
   purpose      |-> body.purpose,
   flatNumber   |-> body.flatNumber,
   status       |-> IF body.status = Absent THEN "Pending" ELSE body.status,
   entryTime    |-> IF body.entryTime = NoTime THEN now ELSE body.entryTime,
   approvalTime |-> body.approvalTime,
   mobile       |-> body.mobile]

\* mobile: { type: String, required: true }: save() rejects without it
ValidVisitor(doc) == doc.mobile # Absent

\* Mutant: the lookup forgets the role (as User.findOne({ flatNumber }) does).
FindUsersOfFlat(flat) ==
  {u \in DOMAIN users : users[u].flatNumber = flat}

\* User.find({ flatNumber, role: 'resident' })
FindResidents(flat) ==
  {u \in DOMAIN users : users[u].flatNumber = flat /\ users[u].role = "resident"}

\* Mutant: the loop does not look at the token.
WithOrWithoutToken(us) == us

\* residents.forEach(resident => { if (resident.pushToken) send... })
WithToken(us) == {u \in us : users[u].pushToken # Null}

\* Request bodies of POST /visitor-request. A client may send any schema path:
\* a status, an entryTime, an approvalTime.
CreateBodies ==
  [id : {AbsentId}, name : {"n1"}, purpose : {"p1"}, flatNumber : Flats \cup {Absent},
   mobile : {"m1", Absent}, status : StatusValues \cup {Absent},
   entryTime : Times \cup {NoTime}, approvalTime : Times \cup {NoTime}]

CreateFaults == {"none", "save", "find"}

\* POST /visitor-request
CreateVisitorRequest(body, fault) ==
  LET doc == NewVisitor(body) IN
  /\ Len(visitors) < MaxVisitors
  /\ UNCHANGED <<users, now, stepvars>>
  /\ IF ~ValidVisitor(doc) \/ fault = "save"
     THEN \* save() throws: catch, 500
          /\ UNCHANGED visitors
          /\ dispatched' = {}
          /\ last' = Response("create", body, fault, 500, NoData, NoData)
     ELSE /\ visitors' = Append(visitors, doc)
          /\ IF fault = "find"
             THEN \* User.find throws after the save: catch, 500
                  /\ dispatched' = {}
                  /\ last' = Response("create", body, fault, 500, NoData, NoData)
             ELSE /\ dispatched' = WithToken(FindResidents(body.flatNumber))
                  /\ last' = Response("create", body, fault, 201, <<doc>>, NoData)

\* Mutant: the update unsets the approvalTime it does not name.
FindByIdAndUpdateUnsetting(id, update) ==
  IF id \in VisitorIds
  THEN [visitors EXCEPT ![id] = [f \in DOMAIN @ |->
          IF f \in DOMAIN update THEN update[f]
          ELSE IF f = "approvalTime" THEN NoTime
          ELSE @[f]]]
  ELSE visitors

\* Mutant: the update replaces the document (findOneAndReplace): the paths the
\* update does not name fall back to the schema defaults.
FindByIdAndReplace(id, update) ==
  IF id \in VisitorIds
  THEN [visitors EXCEPT ![id] = [f \in DOMAIN @ |->
          IF f \in DOMAIN update THEN update[f]
          ELSE IF f = "status" THEN "Pending"
          ELSE IF f = "approvalTime" THEN NoTime
          ELSE @[f]]]
  ELSE visitors

\* Visitor.findByIdAndUpdate(id, update, { new: true }): the documents after
\* the update; an id that resolves to no document changes nothing.
FindByIdAndUpdate(id, update) ==
  IF id \in VisitorIds
  THEN [visitors EXCEPT ![id] = [f \in DOMAIN @ |->
                                   IF f \in DOMAIN update THEN update[f] ELSE @[f]]]
  ELSE visitors

\* User.findOne({ flatNumber }): the first matching user in natural order, of
\* any role; none when no user has that flat.
FindOneByFlat(flat) ==
  LET matching == {u \in DOMAIN users : users[u].flatNumber = flat} IN
  IF matching = {} THEN {}
  ELSE {CHOOSE u \in matching : \A w \in matching : u <= w}

\* Request bodies of PUT /update-visitor-target
RetargetBodies ==
  [id : RequestIds, flatNumber : Flats \cup {Absent}, purpose : Purposes,
   status : {Absent}, mobile : {Absent}]

RetargetFaults == {"none", "update", "find"}

\* PUT /update-visitor-target
RetargetVisitor(body, fault) ==
  LET updated == FindByIdAndUpdate(body.id,
                    [flatNumber |-> body.flatNumber, purpose |-> body.purpose]) IN
  /\ UNCHANGED <<users, now, stepvars>>
  /\ IF body.id = AbsentId \/ body.flatNumber = Absent
     THEN \* if (!id || !flatNumber) return 400
          /\ UNCHANGED visitors
          /\ dispatched' = {}
          /\ last' = Response("retarget", body, fault, 400, NoData, NoData)
     ELSE IF body.id = MalformedId \/ fault = "update"
     THEN \* findByIdAndUpdate throws (CastError, store failure): outer catch, 500
          /\ UNCHANGED visitors
          /\ dispatched' = {}
          /\ last' = Response("retarget", body, fault, 500, NoData, NoData)
     ELSE IF body.id \notin VisitorIds
     THEN \* if (!updatedVisitor) return 404
          /\ UNCHANGED visitors
          /\ dispatched' = {}
          /\ last' = Response("retarget", body, fault, 404, NoData, NoData)
     ELSE /\ visitors' = updated
          /\ dispatched' = IF fault = "find"
                           THEN {}  \* inner catch: logged, the response still goes out
                           ELSE WithToken(FindOneByFlat(body.flatNumber))
          /\ last' = Response("retarget", body, fault, 200, <<updated[body.id]>>,
                              <<visitors[body.id]>>)

\* Request bodies of PUT /visitor-response
StatusBodies ==
  [id : RequestIds \ {AbsentId}, status : StatusValues,
   flatNumber : {Absent}, mobile : {Absent}]

StatusFaults == {"none", "update"}

\* Mutant: a decision also stamps entryTime.
UpdateDataStampingEntry(status) ==
  IF status = "Approved" \/ status = "Rejected"
  THEN [status |-> status, approvalTime |-> now, entryTime |-> now]
  ELSE [status |-> status]

\* Mutant: approvalTime is stamped only when the status becomes Approved.
UpdateDataApprovedOnly(status) ==
  IF status = "Approved"
  THEN [status |-> status, approvalTime |-> now]
  ELSE [status |-> status]

\* let updateData = { status }; if Approved or Rejected, approvalTime = new Date()
UpdateData(status) ==
  IF status = "Approved" \/ status = "Rejected"
  THEN [status |-> status, approvalTime |-> now]
  ELSE [status |-> status]

\* PUT /visitor-response (the first of the two identical registrations answers)
UpdateStatus(body, fault) ==
  LET updated == FindByIdAndUpdate(body.id, UpdateData(body.status)) IN
  /\ UNCHANGED <<users, now, stepvars>>
  /\ dispatched' = {}
  /\ IF body.id = MalformedId \/ fault = "update"
     THEN \* findByIdAndUpdate throws: catch, 500
          /\ UNCHANGED visitors
          /\ last' = Response("status", body, fault, 500, NoData, NoData)
     ELSE IF body.id \notin VisitorIds
     THEN \* updatedVisitor is null: res.json({ message, data: null }), a 200
          /\ UNCHANGED visitors
          /\ last' = Response("status", body, fault, 200, NoData, NoData)
     ELSE /\ visitors' = updated
          /\ last' = Response("status", body, fault, 200, <<updated[body.id]>>,
                              <<visitors[body.id]>>)

\* no notifying request has been received yet
Idle == [op |-> "idle", pc |-> "idle"]

Tick ==
  /\ now < MaxClock
  /\ now' = now + 1
  /\ UNCHANGED <<visitors, users, last, dispatched, stepvars>>

Init ==
  /\ visitors = << >>
  /\ users = Directory
  /\ now = 0
  /\ last = [op |-> "none", id |-> AbsentId, flatNumber |-> Absent, status |-> Absent,
             mobile |-> Absent, fault |-> "none", code |-> 0, data |-> NoData,
             prev |-> NoData]
  /\ dispatched = {}
  /\ announcements = << >>
  /\ inflight = Idle
  /\ calls = << >>

Next ==
  \/ \E body \in CreateBodies, fault \in CreateFaults : CreateVisitorRequest(body, fault)
  \/ \E body \in RetargetBodies, fault \in RetargetFaults : RetargetVisitor(body, fault)
  \/ \E body \in StatusBodies, fault \in StatusFaults : UpdateStatus(body, fault)
  \/ Tick

Spec == Init /\ [][Next]_vars

(* ---------------------------------------------------------------------- *)
(* The registry with two visitors on file (two plain creates at time 0),  *)
(* the store up: retargets and decisions on either of them.               *)
(* ---------------------------------------------------------------------- *)
PlainVisitor(flat) ==
  NewVisitor([name |-> "n1", purpose |-> "p1", flatNumber |-> flat, mobile |-> "m1",
              status |-> Absent, entryTime |-> NoTime, approvalTime |-> NoTime])

InitPair ==
  /\ now = 0
  /\ users = Directory
  /\ visitors = << PlainVisitor("F1"), PlainVisitor("F2") >>
  /\ last = [op |-> "none", id |-> AbsentId, flatNumber |-> Absent, status |-> Absent,
             mobile |-> Absent, fault |-> "none", code |-> 0, data |-> NoData,
             prev |-> NoData]
  /\ dispatched = {}
  /\ announcements = << >>
  /\ inflight = Idle
  /\ calls = << >>

NextPair ==
  \/ \E body \in RetargetBodies : RetargetVisitor(body, "none")
  \/ \E body \in StatusBodies : UpdateStatus(body, "none")
  \/ Tick

SpecPair == InitPair /\ [][NextPair]_vars

(* ---------------------------------------------------------------------- *)
(* The notifying routes await by await. A handler runs from one await to  *)
(* the next in one piece; token routes of other clients and the push      *)
(* provider's answers come in between.                                    *)
(* ---------------------------------------------------------------------- *)
\* push tokens a client can register: one the Expo SDK accepts, one it does not
GoodToken == "ExponentPushToken[x]"
BadToken == "not-a-token"

\* Expo.isExpoPushToken(targetToken)
IsExpoPushToken(token) ==
  token \in {GoodToken, "tokA", "tokB", "tokG"}

\* the title sendPushNotification gives every notification
AlertTitle == "Visitor Alert!"

\* Mutant: the sender tries the provider whatever the token looks like.
SendPushNotificationUnchecked(u, message) ==
  [to |-> u, token |-> users[u].pushToken, state |-> "inflight",
   title |-> AlertTitle, body |-> message]

\* sendPushNotification(targetToken, message), up to its first await: a token
\* that fails the format check is logged and skipped, any other token is
\* handed to expo.sendPushNotificationsAsync in one chunk.
\* The notification it builds has the fixed title and the second argument as
\* its body; a third argument is not a parameter and is dropped.
SendPushNotification(u, message) ==
  [to |-> u, token |-> users[u].pushToken,
   state |-> IF IsExpoPushToken(users[u].pushToken) THEN "inflight" ELSE "skipped",
   title |-> AlertTitle, body |-> message]

\* `New Visitor: ${newVisitor.name} is waiting to visit you (${flatNumber}).`
CreateMessage(doc, flat) == <<"New Visitor:", doc.name, "is waiting to visit you", flat>>

\* `New Visitor ${updatedVisitor.name} is waiting to Visit you (${flatNumber}).`
RetargetMessage(doc, flat) == <<"New Visitor", doc.name, "is waiting to Visit you", flat>>

\* the second argument of the broadcaster's call: `📢 ${title}`
AnnounceMessage(body) == <<"announcement:", body.title>>

\* the elements of a set of user ids in the order find() returns them
RECURSIVE InOrder(_)
InOrder(us) ==
  IF us = {} THEN << >>
  ELSE LET u == CHOOSE x \in us : \A y \in us : x <= y
       IN <<u>> \o InOrder(us \ {u})

\* Mutant: the loop stops at the first user without a usable token.
RECURSIVE NotifyUntilSkip(_, _)
NotifyUntilSkip(us, message) ==
  IF us = {} THEN << >>
  ELSE LET u == CHOOSE x \in us : \A y \in us : x <= y
       IN IF users[u].pushToken = Null \/ ~IsExpoPushToken(users[u].pushToken)
          THEN << >>
          ELSE <<SendPushNotification(u, message)>> \o NotifyUntilSkip(us \ {u}, message)

\* forEach(user => { if (user.pushToken) sendPushNotification(user.pushToken, ...) })
NotifyEach(us, message) ==
  LET order == InOrder(WithToken(us))
  IN [i \in 1..Len(order) |-> SendPushNotification(order[i], message)]

Recipients(cs) == {cs[i].to : i \in 1..Len(cs)}
Outstanding(cs) == {i \in 1..Len(cs) : cs[i].state = "inflight"}

\* a handler may start when the one before it has answered
Free == inflight.pc \in {"idle", "done"}

Done(op, body) == [op |-> op, body |-> body, pc |-> "done"]

\* the catch of a try block: a thrown store error becomes the fault answered
Thrown(fault, name) == IF fault THEN name ELSE "none"

\* Request bodies of POST /visitor-request with the documented fields only
PlainCreateBodies ==
  [id : {AbsentId}, name : {"n1"}, purpose : {"p1"}, flatNumber : Flats,
   mobile : {"m1", Absent}, status : {Absent},
   entryTime : {NoTime}, approvalTime : {NoTime}]

\* no response has been sent for the request in flight
NoResponse ==
  [op |-> "none", id |-> AbsentId, flatNumber |-> Absent, status |-> Absent,
   mobile |-> Absent, fault |-> "none", code |-> 0, data |-> NoData,
   prev |-> NoData]

\* POST /visitor-request, up to await newVisitor.save()
CreateReceive(body) ==
  /\ Free
  /\ Len(visitors) < MaxVisitors
  /\ inflight' = [op |-> "create", body |-> body, pc |-> "save",
                  doc |-> NewVisitor(body)]
  /\ calls' = << >>
  /\ dispatched' = {}
  /\ last' = NoResponse
  /\ UNCHANGED <<visitors, users, now, announcements>>

\* Mutant: the residents are notified before the save is awaited.
CreateSaveNotifyFirst(fault) ==
  /\ inflight.op = "create" /\ inflight.pc = "save"
  /\ UNCHANGED <<users, now, announcements>>
  /\ calls' = NotifyEach(FindResidents(inflight.body.flatNumber),
                          CreateMessage(inflight.doc, inflight.body.flatNumber))
  /\ dispatched' = Recipients(calls')
  /\ IF ~ValidVisitor(inflight.doc) \/ fault
     THEN /\ UNCHANGED visitors
          /\ inflight' = Done("create", inflight.body)
          /\ last' = Response("create", inflight.body, Thrown(fault, "save"), 500,
                              NoData, NoData)
     ELSE /\ visitors' = Append(visitors, inflight.doc)
          /\ inflight' = [inflight EXCEPT !.pc = "find"]
          /\ UNCHANGED last

\* await newVisitor.save(), up to await User.find(...)
CreateSave(fault) ==
  /\ inflight.op = "create" /\ inflight.pc = "save"
  /\ UNCHANGED <<users, now, announcements, calls, dispatched>>
  /\ IF ~ValidVisitor(inflight.doc) \/ fault
     THEN /\ UNCHANGED visitors
          /\ inflight' = Done("create", inflight.body)
          /\ last' = Response("create", inflight.body, Thrown(fault, "save"), 500,
                              NoData, NoData)
     ELSE /\ visitors' = Append(visitors, inflight.doc)
          /\ inflight' = [inflight EXCEPT !.pc = "find"]
          /\ UNCHANGED last

\* await User.find(...) answers: the forEach and the response, in one piece
CreateNotify(fault) ==
  /\ inflight.op = "create" /\ inflight.pc = "find"
  /\ UNCHANGED <<visitors, users, now, announcements>>
  /\ inflight' = Done("create", inflight.body)
  /\ IF fault
     THEN /\ UNCHANGED <<calls, dispatched>>
          /\ last' = Response("create", inflight.body, "find", 500, NoData, NoData)
     ELSE LET cs == NotifyEach(FindResidents(inflight.body.flatNumber),
                          CreateMessage(inflight.doc, inflight.body.flatNumber)) IN
          /\ calls' = cs
          /\ dispatched' = Recipients(cs)
          /\ last' = Response("create", inflight.body, "none", 201,
                              <<inflight.doc>>, NoData)

\* expo.sendPushNotificationsAsync(chunk) answers or throws; the sender logs
\* either and returns
ProviderAnswer(i, ok) ==
  /\ i \in Outstanding(calls)
  /\ calls' = [calls EXCEPT ![i].state = IF ok THEN "ok" ELSE "failed"]
  /\ UNCHANGED <<visitors, users, now, last, dispatched, announcements, inflight>>

\* Request bodies of PUT /update-visitor-target, one purpose
PlainRetargetBodies == {b \in RetargetBodies : b.purpose = "p1"}

\* PUT /update-visitor-target, up to await Visitor.findByIdAndUpdate(...)
RetargetReceive(body) ==
  /\ Free
  /\ calls' = << >>
  /\ dispatched' = {}
  /\ UNCHANGED <<visitors, users, now, announcements>>
  /\ IF body.id = AbsentId \/ body.flatNumber = Absent
     THEN \* if (!id || !flatNumber) return 400
          /\ inflight' = Done("retarget", body)
          /\ last' = Response("retarget", body, "none", 400, NoData, NoData)
     ELSE /\ inflight' = [op |-> "retarget", body |-> body, pc |-> "update"]
          /\ last' = NoResponse

\* await Visitor.findByIdAndUpdate(...), up to await User.findOne(...)
RetargetUpdate(fault) ==
  LET body == inflight.body
      updated == FindByIdAndUpdate(body.id,
                    [flatNumber |-> body.flatNumber, purpose |-> body.purpose]) IN
  /\ inflight.op = "retarget" /\ inflight.pc = "update"
  /\ UNCHANGED <<users, now, announcements, calls, dispatched>>
  /\ IF body.id = MalformedId \/ fault
     THEN /\ UNCHANGED visitors
          /\ inflight' = Done("retarget", body)
          /\ last' = Response("retarget", body, Thrown(fault, "update"), 500,
                              NoData, NoData)
     ELSE IF body.id \notin VisitorIds
     THEN /\ UNCHANGED visitors
          /\ inflight' = Done("retarget", body)
          /\ last' = Response("retarget", body, "none", 404, NoData, NoData)
     ELSE /\ visitors' = updated
          /\ inflight' = [op |-> "retarget", body |-> body, pc |-> "findOne",
                          doc |-> updated[body.id], prev |-> visitors[body.id]]
          /\ UNCHANGED last

\* Mutant: the lookup of the resident is not wrapped in a try of its own.
RetargetNotifyUncaught(fault) ==
  LET cs == IF fault THEN << >>
            ELSE NotifyEach(FindOneByFlat(inflight.body.flatNumber),
                            RetargetMessage(inflight.doc, inflight.body.flatNumber)) IN
  /\ inflight.op = "retarget" /\ inflight.pc = "findOne"
  /\ UNCHANGED <<visitors, users, now, announcements>>
  /\ calls' = cs
  /\ dispatched' = Recipients(cs)
  /\ IF Outstanding(cs) # {}
     THEN /\ inflight' = [inflight EXCEPT !.pc = "send"]
          /\ UNCHANGED last
     ELSE /\ inflight' = Done("retarget", inflight.body)
          /\ last' = IF fault
                     THEN Response("retarget", inflight.body, "find", 500,
                                   NoData, <<inflight.prev>>)
                     ELSE Response("retarget", inflight.body, "none", 200,
                                   <<inflight.doc>>, <<inflight.prev>>)


\* await User.findOne(...) answers or throws inside the inner try; the handler
\* then awaits sendPushNotification, or answers at once when there is nothing
\* to await (no resident, no token, a token the sender skips, the inner catch)
RetargetNotify(fault) ==
  LET cs == IF fault THEN << >>
            ELSE NotifyEach(FindOneByFlat(inflight.body.flatNumber),
                            RetargetMessage(inflight.doc, inflight.body.flatNumber)) IN
  /\ inflight.op = "retarget" /\ inflight.pc = "findOne"
  /\ UNCHANGED <<visitors, users, now, announcements>>
  /\ calls' = cs
  /\ dispatched' = Recipients(cs)
  /\ IF Outstanding(cs) # {}
     THEN /\ inflight' = [inflight EXCEPT !.pc = "send"]
          /\ UNCHANGED last
     ELSE /\ inflight' = Done("retarget", inflight.body)
          /\ last' = Response("retarget", inflight.body, Thrown(fault, "find"), 200,
                              <<inflight.doc>>, <<inflight.prev>>)

\* await sendPushNotification(...) returns: res.json({ success: true, ... })
RetargetRespond ==
  /\ inflight.op = "retarget" /\ inflight.pc = "send"
  /\ Outstanding(calls) = {}
  /\ inflight' = Done("retarget", inflight.body)
  /\ last' = Response("retarget", inflight.body, "none", 200,
                      <<inflight.doc>>, <<inflight.prev>>)
  /\ UNCHANGED <<visitors, users, now, announcements, calls, dispatched>>

\* announcementSchema.target: enum ['all', 'resident', 'guard'], default 'all'
TargetEnum == {"all", "resident", "guard"}

\* new Announcement({ title, message, target })
NewAnnouncement(body) ==
  [title |-> body.title, message |-> body.message,
   target |-> IF body.target = Absent THEN "all" ELSE body.target,
   date |-> now]

\* the enum validator run by save()
ValidAnnouncement(doc) == doc.target \in TargetEnum

\* Mutant: the line that narrows the filter to guards is missing.
FindAudienceNoGuardFilter(target) ==
  {u \in DOMAIN users : target # "resident" \/ users[u].role = "resident"}

\* let filter = {}; 'resident' and 'guard' filter by role; User.find(filter)
FindAudience(target) ==
  {u \in DOMAIN users :
     \/ target \notin {"resident", "guard"}
     \/ users[u].role = target}

\* Request bodies of POST /admin/announce
AnnounceBodies ==
  [id : {AbsentId}, flatNumber : {Absent}, status : {Absent}, mobile : {Absent},
   title : {"t1"}, message : {"msg1"},
   target : TargetEnum \cup {"other", Absent}]

\* POST /admin/announce, up to await newAnnouncement.save()
AnnounceReceive(body) ==
  /\ Free
  /\ Len(announcements) < MaxAnnouncements
  /\ inflight' = [op |-> "announce", body |-> body, pc |-> "save",
                  doc |-> NewAnnouncement(body)]
  /\ calls' = << >>
  /\ dispatched' = {}
  /\ last' = NoResponse
  /\ UNCHANGED <<visitors, users, now, announcements>>

\* await newAnnouncement.save(), up to await User.find(filter)
AnnounceSave(fault) ==
  /\ inflight.op = "announce" /\ inflight.pc = "save"
  /\ UNCHANGED <<visitors, users, now, calls, dispatched>>
  /\ IF ~ValidAnnouncement(inflight.doc) \/ fault
     THEN /\ UNCHANGED announcements
          /\ inflight' = Done("announce", inflight.body)
          /\ last' = Response("announce", inflight.body, Thrown(fault, "save"), 500,
                              NoData, NoData)
     ELSE /\ announcements' = Append(announcements, inflight.doc)
          /\ inflight' = [inflight EXCEPT !.pc = "find"]
          /\ UNCHANGED last

\* Mutant: the count answered is the number of notifications handed to the sender.
AnnounceNotifyCountsSent(fault) ==
  /\ inflight.op = "announce" /\ inflight.pc = "find"
  /\ UNCHANGED <<visitors, users, now, announcements>>
  /\ inflight' = Done("announce", inflight.body)
  /\ IF fault
     THEN /\ UNCHANGED <<calls, dispatched>>
          /\ last' = Response("announce", inflight.body, "find", 500, NoData, NoData)
     ELSE LET audience == FindAudience(inflight.body.target)
              cs == NotifyEach(audience, AnnounceMessage(inflight.body)) IN
          /\ calls' = cs
          /\ dispatched' = Recipients(cs)
          /\ last' = Response("announce", inflight.body, "none", 200,
                              <<[count |-> Len(cs)]>>, NoData)

\* Mutant: a failing lookup of the audience takes the announcement back.
AnnounceNotifyRollback(fault) ==
  /\ inflight.op = "announce" /\ inflight.pc = "find"
  /\ UNCHANGED <<visitors, users, now>>
  /\ announcements' = IF fault THEN SubSeq(announcements, 1, Len(announcements) - 1)
                       ELSE announcements
  /\ inflight' = Done("announce", inflight.body)
  /\ IF fault
     THEN /\ UNCHANGED <<calls, dispatched>>
          /\ last' = Response("announce", inflight.body, "find", 500, NoData, NoData)
     ELSE LET audience == FindAudience(inflight.body.target)
              cs == NotifyEach(audience, AnnounceMessage(inflight.body)) IN
          /\ calls' = cs
          /\ dispatched' = Recipients(cs)
          /\ last' = Response("announce", inflight.body, "none", 200,
                              <<[count |-> Cardinality(audience)]>>, NoData)

\* await User.find(filter) answers: the forEach and the response, in one piece
AnnounceNotify(fault) ==
  /\ inflight.op = "announce" /\ inflight.pc = "find"
  /\ UNCHANGED <<visitors, users, now, announcements>>
  /\ inflight' = Done("announce", inflight.body)
  /\ IF fault
     THEN /\ UNCHANGED <<calls, dispatched>>
          /\ last' = Response("announce", inflight.body, "find", 500, NoData, NoData)
     ELSE LET audience == FindAudience(inflight.body.target)
              cs == NotifyEach(audience, AnnounceMessage(inflight.body)) IN
          /\ calls' = cs
          /\ dispatched' = Recipients(cs)
          /\ last' = Response("announce", inflight.body, "none", 200,
                              <<[count |-> Cardinality(audience)]>>, NoData)

\* users whose token the token routes are called for
TokenUsers == {1, 2, 3}

\* the write of POST /logout for a user on file, between the steps of the
\* notifying handlers: User.findByIdAndUpdate(userId, { pushToken: null })
Logout(u) ==
  /\ u \in DOMAIN users
  /\ users' = [users EXCEPT ![u].pushToken = Null]
  /\ UNCHANGED <<visitors, now, last, dispatched, announcements, inflight, calls>>

\* the write of POST /update-token for a user on file:
\* User.findByIdAndUpdate(userId, { pushToken: token })
UpdateToken(u, token) ==
  /\ u \in DOMAIN users
  /\ users' = [users EXCEPT ![u].pushToken = token]
  /\ UNCHANGED <<visitors, now, last, dispatched, announcements, inflight, calls>>

\* the directory, every token on file being one the devices registered
RegisteredDirectory ==
  [u \in DOMAIN Directory |->
     IF Directory[u].pushToken = Null THEN Directory[u]
     ELSE [Directory[u] EXCEPT !.pushToken = GoodToken]]

InitNotify ==
  /\ now = 0
  /\ users = RegisteredDirectory
  /\ visitors = << >>
  /\ last = NoResponse
  /\ dispatched = {}
  /\ announcements = << >>
  /\ inflight = Idle
  /\ calls = << >>

NextNotify ==
  \/ \E body \in PlainCreateBodies : CreateReceive(body)
  \/ \E fault \in BOOLEAN : CreateSave(fault)
  \/ \E fault \in BOOLEAN : CreateNotify(fault)
  \/ \E body \in PlainRetargetBodies : RetargetReceive(body)
  \/ \E fault \in BOOLEAN : RetargetUpdate(fault)
  \/ \E fault \in BOOLEAN : RetargetNotify(fault)
  \/ RetargetRespond
  \/ \E body \in AnnounceBodies : AnnounceReceive(body)
  \/ \E fault \in BOOLEAN : AnnounceSave(fault)
  \/ \E fault \in BOOLEAN : AnnounceNotify(fault)
  \/ \E i \in 1..Len(calls), ok \in BOOLEAN : ProviderAnswer(i, ok)
  \/ \E u \in TokenUsers : Logout(u)
  \/ \E u \in TokenUsers, token \in {GoodToken, BadToken} : UpdateToken(u, token)

SpecNotify == InitNotify /\ [][NextNotify]_vars

(* ---------------------------------------------------------------------- *)
(* Two requests on the visitors on file: one retarget taken await by      *)
(* await, and a second retarget that runs from start to end between two   *)
(* of the first one's steps.                                               *)
(* ---------------------------------------------------------------------- *)
NextRace ==
  \/ \E body \in PlainRetargetBodies : RetargetReceive(body)
  \/ \E fault \in BOOLEAN : RetargetUpdate(fault)
  \/ \E fault \in BOOLEAN : RetargetNotify(fault)
  \/ RetargetRespond
  \/ \E i \in 1..Len(calls), ok \in BOOLEAN : ProviderAnswer(i, ok)
  \/ \E body \in PlainRetargetBodies : RetargetVisitor(body, "none")

SpecRace == InitPair /\ [][NextRace]_vars

(* ---------------------------------------------------------------------- *)
(* A retarget taken await by await, with status updates running between  *)
(* its steps.                                                              *)
(* ---------------------------------------------------------------------- *)
NextCommute ==
  \/ \E body \in {b \in RetargetBodies : b.purpose = "p2"} : RetargetReceive(body)
  \/ \E fault \in BOOLEAN : RetargetUpdate(fault)
  \/ \E fault \in BOOLEAN : RetargetNotify(fault)
  \/ RetargetRespond
  \/ \E i \in 1..Len(calls), ok \in BOOLEAN : ProviderAnswer(i, ok)
  \/ \E body \in {b \in StatusBodies : b.status \in {"Approved", "Rejected"}} :
        UpdateStatus(body, "none")

SpecCommute == InitPair /\ [][NextCommute]_vars

(* ---------------------------------------------------------------------- *)
(* The read routes of the visitors. An answered list is the sequence of   *)
(* the _ids of its documents. The store orders documents with equal sort  *)
(* keys as it likes: every order that respects the sort can be answered.  *)
(* ---------------------------------------------------------------------- *)
\* the arrangements of a set of ids in a sequence, each id once
Arrangements(ids) ==
  {r \in [1..Cardinality(ids) -> ids] : \A i, j \in DOMAIN r : i # j => r[i] # r[j]}

\* Mutant: the sort is ascending.
SortByEntryTimeAscending(ids) ==
  {r \in Arrangements(ids) :
     \A i \in 1..(Len(r) - 1) : visitors[r[i]].entryTime <= visitors[r[i + 1]].entryTime}

\* .sort({ entryTime: -1 })
SortByEntryTime(ids) ==
  {r \in Arrangements(ids) :
     \A i \in 1..(Len(r) - 1) : visitors[r[i]].entryTime >= visitors[r[i + 1]].entryTime}

\* Mutant: the filter on the flat is missing.
FindAnyFlat(flat) == VisitorIds

\* Visitor.find({ flatNumber: flat })
FindByFlat(flat) == {id \in VisitorIds : visitors[id].flatNumber = flat}

\* the request of a read route: a path parameter at most
ListRequest(param) ==
  [id |-> AbsentId, flatNumber |-> param, status |-> Absent, mobile |-> Absent]

\* GET /all-visitors
GetAllVisitors(fault) ==
  /\ UNCHANGED <<visitors, users, now, dispatched, stepvars>>
  /\ IF fault
     THEN last' = Response("allVisitors", ListRequest(Absent), "find", 500, NoData, NoData)
     ELSE \E r \in SortByEntryTime(VisitorIds) :
            last' = Response("allVisitors", ListRequest(Absent), "none", 200, r, NoData)

\* GET /visitors/:flat
GetVisitorsByFlat(flat, fault) ==
  /\ UNCHANGED <<visitors, users, now, dispatched, stepvars>>
  /\ IF fault
     THEN last' = Response("visitorsByFlat", ListRequest(flat), "find", 500, NoData, NoData)
     ELSE \E r \in SortByEntryTime(FindByFlat(flat)) :
            last' = Response("visitorsByFlat", ListRequest(flat), "none", 200, r, NoData)

\* a visitor on file, created for a flat at a time
ListedVisitor(flat, time) == [PlainVisitor(flat) EXCEPT !.entryTime = time]

\* two visitors on file, of any flats and entry times
InitLists ==
  /\ now = MaxClock
  /\ users = Directory
  /\ visitors \in {<<ListedVisitor(f1, t1), ListedVisitor(f2, t2)>> :
                      f1 \in Flats, f2 \in Flats, t1 \in Times, t2 \in Times}
  /\ last = NoResponse
  /\ dispatched = {}
  /\ announcements = << >>
  /\ inflight = Idle
  /\ calls = << >>

NextLists ==
  \/ \E fault \in BOOLEAN : GetAllVisitors(fault)
  \/ \E flat \in Flats, fault \in BOOLEAN : GetVisitorsByFlat(flat, fault)
  \/ \E body \in {b \in RetargetBodies : b.purpose = "p2"} :
        RetargetVisitor(body, "none")
  \/ \E body \in {b \in StatusBodies : b.status \in {"Approved", "Rejected"}} :
        UpdateStatus(body, "none")

SpecLists == InitLists /\ [][NextLists]_vars

(* ---------------------------------------------------------------------- *)
(* The read route of the announcements, over stores of up to three        *)
(* announcements made at non-decreasing times.                            *)
(* ---------------------------------------------------------------------- *)
AnnouncementIds == 1..Len(announcements)

\* Mutant: the filter forgets the announcements for all.
FindForRoleOnly(role) == {id \in AnnouncementIds : announcements[id].target = role}

\* Announcement.find({ $or: [{ target: role }, { target: 'all' }] })
FindForRole(role) ==
  {id \in AnnouncementIds : announcements[id].target = role
                              \/ announcements[id].target = "all"}

\* .sort({ date: -1 })
SortByDate(ids) ==
  {r \in Arrangements(ids) :
     \A i \in 1..(Len(r) - 1) : announcements[r[i]].date >= announcements[r[i + 1]].date}

\* values of the :role path parameter
RoleParams == {"resident", "guard", "admin", "all"}

\* GET /announcements/:role
GetAnnouncements(role, fault) ==
  /\ UNCHANGED <<visitors, users, now, dispatched, stepvars>>
  /\ IF fault
     THEN last' = Response("announcements", ListRequest(role), "find", 500, NoData, NoData)
     ELSE \E r \in SortByDate(FindForRole(role)) :
            last' = Response("announcements", ListRequest(role), "none", 200, r, NoData)

\* an announcement on file
Stored(target, date) ==
  [title |-> "t1", message |-> "msg1", target |-> target, date |-> date]

\* stores that announcement creations up to the present leave behind
AnnouncementStores ==
  LET one == {<<Stored(a, d)>> : a \in TargetEnum, d \in Times}
      two == {s \o t : s \in one, t \in one}
      three == {s \o t : s \in two, t \in one}
  IN {s \in {<< >>} \cup one \cup two \cup three :
        /\ \A i \in 1..(Len(s) - 1) : s[i].date <= s[i + 1].date
        /\ \A i \in 1..Len(s) : s[i].date <= now}

InitAnnouncements ==
  /\ now \in Times
  /\ users = RegisteredDirectory
  /\ visitors = << >>
  /\ last = NoResponse
  /\ dispatched = {}
  /\ announcements \in AnnouncementStores
  /\ inflight = Idle
  /\ calls = << >>

NextAnnouncements ==
  \/ \E role \in RoleParams, fault \in BOOLEAN : GetAnnouncements(role, fault)
  \/ \E body \in AnnounceBodies : AnnounceReceive(body)
  \/ \E fault \in BOOLEAN : AnnounceSave(fault)
  \/ \E fault \in BOOLEAN : AnnounceNotify(fault)
  \/ \E i \in 1..Len(calls), ok \in BOOLEAN : ProviderAnswer(i, ok)
  \/ Tick

SpecAnnouncements == InitAnnouncements /\ [][NextAnnouncements]_vars

(* ---------------------------------------------------------------------- *)
(* The token routes with their responses.                                  *)
(* ---------------------------------------------------------------------- *)
\* a well-formed id that no user document has
UnknownUserId == Len(Directory) + 1

\* userId values a client can send
UserIdParams == DOMAIN Directory \cup {UnknownUserId, MalformedId}

\* token values a client can send
TokenParams == {GoodToken, BadToken, Null}

\* the response of a token route, with the token the request asked for
TokenResponse(op, userId, token, fault, code) ==
  [op |-> op, id |-> userId, flatNumber |-> Absent, status |-> Absent,
   mobile |-> Absent, fault |-> fault, code |-> code, data |-> NoData,
   prev |-> NoData, token |-> token]

\* User.findByIdAndUpdate(userId, { pushToken: token }): the directory afterwards
SetPushToken(userId, token) ==
  IF userId \in DOMAIN users THEN [users EXCEPT ![userId].pushToken = token] ELSE users

\* POST /update-token: the result of findByIdAndUpdate is not looked at
UpdateTokenRequest(userId, token, fault) ==
  /\ UNCHANGED <<visitors, now, dispatched, stepvars>>
  /\ IF userId = MalformedId \/ fault
     THEN /\ UNCHANGED users
          /\ last' = TokenResponse("updateToken", userId, token,
                                    Thrown(fault, "update"), 500)
     ELSE /\ users' = SetPushToken(userId, token)
          /\ last' = TokenResponse("updateToken", userId, token, "none", 200)

\* POST /logout: the result of findByIdAndUpdate is not looked at
LogoutRequest(userId, fault) ==
  /\ UNCHANGED <<visitors, now, dispatched, stepvars>>
  /\ IF userId = MalformedId \/ fault
     THEN /\ UNCHANGED users
          /\ last' = TokenResponse("logout", userId, Null, Thrown(fault, "update"), 500)
     ELSE /\ users' = SetPushToken(userId, Null)
          /\ last' = TokenResponse("logout", userId, Null, "none", 200)

\* PUT /update-push-token
UpdatePushToken(userId, pushToken, fault) ==
  /\ UNCHANGED <<visitors, now, dispatched, stepvars>>
  /\ IF userId = AbsentId
     THEN \* if (!userId) return 400
          /\ UNCHANGED users
          /\ last' = TokenResponse("updatePushToken", userId, pushToken, "none", 400)
     ELSE IF userId = MalformedId \/ fault
     THEN /\ UNCHANGED users
          /\ last' = TokenResponse("updatePushToken", userId, pushToken,
                                    Thrown(fault, "update"), 500)
     ELSE IF userId \notin DOMAIN users
     THEN \* if (!updatedUser) return 404
          /\ UNCHANGED users
          /\ last' = TokenResponse("updatePushToken", userId, pushToken, "none", 404)
     ELSE /\ users' = SetPushToken(userId, pushToken)
          /\ last' = TokenResponse("updatePushToken", userId, pushToken, "none", 200)

NextTokens ==
  \/ \E userId \in UserIdParams, token \in TokenParams, fault \in BOOLEAN :
        UpdateTokenRequest(userId, token, fault)
  \/ \E userId \in UserIdParams, fault \in BOOLEAN : LogoutRequest(userId, fault)
  \/ \E userId \in UserIdParams \cup {AbsentId}, token \in TokenParams, fault \in BOOLEAN :
        UpdatePushToken(userId, token, fault)

SpecTokens == InitNotify /\ [][NextTokens]_vars

(* ====================================================================== *)
(* Claims                                                                 *)
(* ====================================================================== *)
Decisions == {"Approved", "Rejected"}
AllowedStatuses == {"Pending", "Approved", "Rejected"}

\* a step taken by a request handler (Tick alone moves the clock)
HandlerStep == now' = now

\* C1: every successful POST /visitor-request, whatever its payload carries,
\* persists and returns a visitor with status Pending and approvalTime unset.
C1_CreatedIsPending ==
  (last.op = "create" /\ last.code = 201) =>
     /\ last.data[1].status = "Pending"
     /\ last.data[1].approvalTime = NoTime
     /\ visitors[Len(visitors)] = last.data[1]

\* C2: in every reachable state every stored visitor has approvalTime unset
\* if and only if its status is Pending.
C2_ApprovalTimeIffDecided ==
  \A i \in VisitorIds :
     (visitors[i].approvalTime = NoTime) <=> (visitors[i].status = "Pending")

\* C3: in every reachable state the status of every stored visitor is one of
\* Pending, Approved, Rejected.
C3_StatusInEnum ==
  \A i \in VisitorIds : visitors[i].status \in AllowedStatuses

\* C4: PUT /visitor-response with a status other than Approved or Rejected is
\* rejected as a validation error (400) and leaves every visitor unchanged
\* (the store answering).
C4_InvalidStatusRejected ==
  [][(HandlerStep /\ last'.op = "status" /\ last'.fault = "none"
        /\ last'.status \notin Decisions)
       => (last'.code = 400 /\ visitors' = visitors)]_vars

\* C5: PUT /visitor-response with an id that resolves to no stored visitor
\* answers 404 (never a success) and mutates no visitor.
C5_UnknownIdNotFound ==
  [][(HandlerStep /\ last'.op = "status" /\ last'.fault = "none"
        /\ last'.id \notin VisitorIds)
       => (last'.code = 404 /\ visitors' = visitors)]_vars

\* C6: under the non-decreasing clock, entryTime <= approvalTime in every
\* reachable state in which approvalTime is set, whatever payload created the
\* visitor.
C6_EntryBeforeApproval ==
  \A i \in VisitorIds :
     visitors[i].approvalTime # NoTime =>
        visitors[i].entryTime <= visitors[i].approvalTime

\* C7: a successful PUT /visitor-response with status Approved or Rejected
\* leaves the stored record with the status of that call and approvalTime equal
\* to the time of that call, whatever the record's state was before (so after
\* any sequence of such calls the last one decides; Approved then Rejected ends
\* Rejected with the second call's timestamp), and returns that record.
C7_LastDecisionWins ==
  [][(HandlerStep /\ last'.op = "status" /\ last'.code = 200
        /\ last'.data # NoData /\ last'.status \in Decisions)
       => /\ last'.id \in VisitorIds
          /\ visitors'[last'.id].status = last'.status
          /\ visitors'[last'.id].approvalTime = now
          /\ last'.data[1] = visitors'[last'.id]]_vars

\* C7 witness: a visitor approved at an earlier time has just been rejected,
\* and carries Rejected with the time of the second call.
C7_ApprovedThenRejected ==
  /\ last.op = "status" /\ last.code = 200 /\ last.status = "Rejected"
  /\ last.prev # NoData
  /\ last.prev[1].status = "Approved"
  /\ last.prev[1].approvalTime # NoTime
  /\ last.prev[1].approvalTime < now
  /\ last.id \in VisitorIds
  /\ visitors[last.id].status = "Rejected"
  /\ visitors[last.id].approvalTime = now

\* C8: PUT /update-visitor-target changes only flatNumber and purpose of the
\* addressed visitor: its status, entryTime and approvalTime (and name, mobile)
\* and every other visitor are unchanged, in whatever state the visitor is.
C8_RetargetFrame ==
  [][(HandlerStep /\ last'.op = "retarget")
       => /\ Len(visitors') = Len(visitors)
          /\ \A i \in VisitorIds :
                /\ i # last'.id => visitors'[i] = visitors[i]
                /\ visitors'[i].status = visitors[i].status
                /\ visitors'[i].entryTime = visitors[i].entryTime
                /\ visitors'[i].approvalTime = visitors[i].approvalTime
                /\ visitors'[i].name = visitors[i].name
                /\ visitors'[i].mobile = visitors[i].mobile]_vars

\* C8 witness: an Approved visitor has just been moved to another flat and is
\* still Approved with its approvalTime, beside another visitor on file.
C8_ApprovedRetargeted ==
  /\ last.op = "retarget" /\ last.code = 200
  /\ last.prev # NoData
  /\ last.prev[1].status = "Approved"
  /\ last.prev[1].flatNumber # last.flatNumber
  /\ Len(visitors) > 1
  /\ visitors[last.id].flatNumber = last.flatNumber
  /\ visitors[last.id].status = "Approved"
  /\ visitors[last.id].approvalTime = last.prev[1].approvalTime
  /\ visitors[last.id].approvalTime # NoTime

\* C9: PUT /update-visitor-target with a missing id or a missing flat answers
\* 400, and with an id that resolves to no visitor answers 404; in both cases
\* no visitor is mutated and no notification dispatch is initiated.
C9_RetargetRejections ==
  [][(HandlerStep /\ last'.op = "retarget" /\ last'.fault = "none")
       => /\ (last'.id = AbsentId \/ last'.flatNumber = Absent)
               => (last'.code = 400 /\ visitors' = visitors /\ dispatched' = {})
          /\ (last'.id # AbsentId /\ last'.flatNumber # Absent
                /\ last'.id \notin VisitorIds)
               => (last'.code = 404 /\ visitors' = visitors /\ dispatched' = {})]_vars

\* C10: POST /visitor-request with mobile absent or with flatNumber absent
\* answers 400, persists no visitor record and initiates no dispatch (the
\* store answering).
C10_CreateValidation ==
  [][(HandlerStep /\ last'.op = "create" /\ last'.fault = "none"
        /\ (last'.mobile = Absent \/ last'.flatNumber = Absent))
       => (last'.code = 400 /\ visitors' = visitors /\ dispatched' = {})]_vars

\* the users a resident lookup for a flat has to reach: role resident, that
\* flat, a push token on file
ResidentsToNotify(flat) ==
  {u \in DOMAIN users : /\ users[u].role = "resident"
                         /\ users[u].flatNumber = flat
                         /\ users[u].pushToken # Null}

\* the step in which the create handler gets its residents and answers 201
CreateAnswered ==
  /\ inflight.op = "create" /\ inflight.pc = "find"
  /\ inflight'.pc = "done" /\ last'.code = 201

RetargetLookedUp ==
  /\ inflight.op = "retarget" /\ inflight.pc = "findOne"
  /\ inflight'.pc = "send" \/ (inflight'.pc = "done" /\ last'.fault = "none")

\* C12: after a successful retarget a dispatch is initiated to every resident
\* of the new flat that has a push token, and to no one else.
C12_RetargetFanOut ==
  [][RetargetLookedUp =>
        Recipients(calls') = ResidentsToNotify(inflight.body.flatNumber)]_vars

\* C13: the response does not wait on delivery: whenever provider sends of a
\* request are outstanding, its handler has already answered.
C13_ResponseBeforeDelivery ==
  Outstanding(calls) # {} => inflight.pc = "done"

\* the record the request in flight has written is in the store
Persisted ==
  CASE inflight.op = "create" ->
         /\ Len(visitors) > 0 /\ visitors[Len(visitors)] = inflight.doc
    [] inflight.op = "retarget" ->
         /\ inflight.body.id \in VisitorIds
         /\ visitors[inflight.body.id] = inflight.doc
         /\ inflight.doc.flatNumber = inflight.body.flatNumber
    [] inflight.op = "announce" ->
         /\ Len(announcements) > 0
         /\ announcements[Len(announcements)] = inflight.doc
    [] OTHER -> FALSE

C15_SuccessOncePersisted ==
  [][(inflight.op \in {"create", "announce"} /\ inflight.pc = "find"
      /\ inflight'.pc = "done") => last'.code \in {200, 201}]_vars

\* C16: for retarget, once the record is updated every failure of the
\* notification phase (lookup, unusable token, provider error) is absorbed:
\* the handler answers 200 with the updated visitor.
C16_RetargetAbsorbsFailures ==
  [][(inflight.op = "retarget" /\ inflight.pc \in {"findOne", "send"}
      /\ inflight'.pc = "done") =>
        /\ last'.code = 200
        /\ last'.data = <<visitors'[inflight.body.id]>>
        /\ visitors'[inflight.body.id].flatNumber = inflight.body.flatNumber]_vars

\* C16 witness: the lookup of the resident failed after the update and the
\* handler answered 200 with the moved visitor.
C16_LookupFailedStill200 ==
  /\ inflight.op = "retarget" /\ inflight.pc = "done"
  /\ last.fault = "find" /\ last.code = 200
  /\ last.data = <<visitors[last.id]>>
  /\ last.prev # << >> /\ last.prev[1].flatNumber # last.data[1].flatNumber

\* the step in which a create or announce handler runs its forEach
FanOutStep ==
  /\ inflight.op \in {"create", "announce"} /\ inflight.pc = "find"
  /\ inflight'.pc = "done" /\ last'.fault = "none"

\* the users a fan-out step has looked up
LookedUp ==
  IF inflight.op = "create" THEN FindResidents(inflight.body.flatNumber)
  ELSE FindAudience(inflight.body.target)

\* C17: fan-out isolation: every looked-up user with a token gets its attempt,
\* and every one with a well-formed token its provider send, whatever happens
\* to the other recipients; a provider answer touches one attempt only and the
\* response stays the success it was.
C17_FanOutIsolation ==
  [][/\ FanOutStep =>
          /\ \A u \in WithToken(LookedUp) :
                \E i \in 1..Len(calls') :
                   /\ calls'[i].to = u
                   /\ IsExpoPushToken(users[u].pushToken) => calls'[i].state = "inflight"
          /\ last'.code \in {200, 201}
     /\ (calls # << >> /\ calls' # calls /\ inflight' = inflight) =>
          /\ Cardinality({i \in 1..Len(calls) : calls'[i] # calls[i]}) = 1
          /\ last' = last]_vars

\* C17 witness: of two residents of a flat the first has a token the provider
\* library rejects; the second was sent to all the same and the create was 201.
C17_BadTokenBesideGoodOne ==
  /\ inflight.op = "create" /\ inflight.pc = "done" /\ last.code = 201
  /\ Len(calls) = 2
  /\ calls[1].state = "skipped"
  /\ calls[2].state \in {"inflight", "ok", "failed"}

\* the step in which a handler hands its recipients to the sender
DispatchStep == calls = << >> /\ calls' # << >>

\* C18: a user whose token is null is never dispatched to (so not after a
\* logout, until a token is registered again), and the operation that would
\* have notified that user still succeeds.
C18_NullTokenNeverTarget ==
  [][/\ DispatchStep =>
          \A i \in 1..Len(calls') :
             /\ users[calls'[i].to].pushToken # Null
             /\ calls'[i].token = users[calls'[i].to].pushToken
     /\ (inflight.pc \in {"find", "findOne"} /\ inflight'.pc = "done"
         /\ last'.fault = "none") => last'.code \in {200, 201}]_vars

\* C18 witness: user 2, on file with a token at the start, has logged out;
\* a create for that user's flat was answered 201 and reached the co-resident
\* only.
C18_LoggedOutNotReached ==
  /\ users[2].pushToken = Null
  /\ inflight.op = "create" /\ inflight.pc = "done" /\ last.code = 201
  /\ last.flatNumber = users[2].flatNumber
  /\ dispatched = {3}

\* C19: a token that fails the provider library's format check is skipped: no
\* provider send is made for it, and the sender returns normally (the handler
\* that awaits it answers at once with its success).
C19_InvalidTokenSkipped ==
  /\ \A i \in 1..Len(calls) :
        ~IsExpoPushToken(calls[i].token) => calls[i].state = "skipped"
  /\ inflight.pc = "send" => \A i \in 1..Len(calls) : calls[i].state # "skipped"
  /\ (/\ inflight.op = "retarget" /\ inflight.pc = "done"
      /\ \E i \in 1..Len(calls) : calls[i].state = "skipped") => last.code = 200

\* C19 witness: a retarget found a user with a malformed token; nothing was
\* sent to the provider and the handler answered 200.
C19_SkippedAnd200 ==
  /\ inflight.op = "retarget" /\ inflight.pc = "done" /\ last.code = 200
  /\ Len(calls) = 1 /\ calls[1].state = "skipped" /\ calls[1].token = BadToken

\* C20: an announcement whose target is none of all, resident, guard (absent
\* included) succeeds and is persisted with target all.
C20_UnknownTargetBecomesAll ==
  (/\ inflight.op = "announce" /\ inflight.pc = "done"
   /\ inflight.body.target \notin TargetEnum
   /\ last.fault = "none") =>
     /\ last.code = 200
     /\ Len(announcements) > 0
     /\ announcements[Len(announcements)].target = "all"

\* C29: every dispatch initiated for an announcement carries the
\* announcement's title as the notification title and its message as the
\* notification body.
C29_AnnouncementContent ==
  inflight.op = "announce" =>
    \A i \in 1..Len(calls) : /\ calls[i].title = inflight.body.title
                              /\ calls[i].body = <<inflight.body.message>>

\* the step in which the announce handler gets its audience and answers
AnnounceAnswered ==
  /\ inflight.op = "announce" /\ inflight.pc = "find"
  /\ inflight'.pc = "done" /\ last'.fault = "none"

\* C21: the count answered by an announcement is the number of users resolved
\* for its audience, users without a push token included, whatever number of
\* dispatches is attempted or delivered.
C21_CountIsAudienceSize ==
  [][/\ AnnounceAnswered =>
          /\ last'.code = 200
          /\ last'.data = <<[count |-> Cardinality(LookedUp)]>>
     /\ (inflight.op = "announce" /\ inflight.pc = "done" /\ inflight' = inflight) =>
          last' = last]_vars

\* C21 witness: an announcement to all answered count 4 with three dispatches
\* (one user has no token), one of them failed at the provider.
C21_CountAboveDispatches ==
  /\ inflight.op = "announce" /\ inflight.pc = "done" /\ last.code = 200
  /\ last.data = <<[count |-> 4]>>
  /\ Len(calls) = 3
  /\ \E i \in 1..Len(calls) : calls[i].state = "failed"

\* the audience a stored target stands for
AudienceOf(target) ==
  CASE target = "all" -> DOMAIN users
    [] target = "resident" -> {u \in DOMAIN users : users[u].role = "resident"}
    [] target = "guard" -> {u \in DOMAIN users : users[u].role = "guard"}

\* C22: target all resolves to every user of the directory, resident to exactly
\* the residents, guard to exactly the guards; the dispatches of an
\* announcement go to members of the resolved audience only.
C22_AudienceResolution ==
  [][AnnounceAnswered =>
        /\ last'.data = <<[count |-> Cardinality(AudienceOf(inflight.doc.target))]>>
        /\ Recipients(calls') \subseteq AudienceOf(inflight.doc.target)
        /\ \A u \in AudienceOf(inflight.doc.target) :
              users[u].pushToken # Null => u \in Recipients(calls')]_vars

\* C22 witness: an announcement to the guards reached the one guard and no
\* resident.
C22_GuardsOnly ==
  /\ inflight.op = "announce" /\ inflight.pc = "done" /\ last.code = 200
  /\ inflight.body.target = "guard"
  /\ dispatched = {1}
  /\ last.data = <<[count |-> 1]>>

\* C27: an announcement, once created, is never modified or deleted: every
\* step leaves each stored announcement where and as it was.
C27_AnnouncementsImmutable ==
  [][/\ Len(announcements') >= Len(announcements)
     /\ \A i \in 1..Len(announcements) : announcements'[i] = announcements[i]]_vars

\* C27 witness: an announcement is on file and a later retarget has been
\* answered; the announcement is as it was stored.
C27_StillStoredAfterRetarget ==
  /\ Len(announcements) = 1
  /\ announcements[1] = [title |-> "t1", message |-> "msg1", target |-> "resident",
                         date |-> 0]
  /\ inflight.op = "retarget" /\ inflight.pc = "done" /\ last.code = 200

\* C30: visitor notifications (create, retarget) go only to users with role
\* resident whose flat is the visitor's target flat; a guard or admin with the
\* same flat number never receives one.
C30_VisitorNotificationsToResidents ==
  inflight.op \in {"create", "retarget"} =>
    \A i \in 1..Len(calls) :
       /\ users[calls[i].to].role = "resident"
       /\ users[calls[i].to].flatNumber = inflight.body.flatNumber

\* C28: whenever the dispatch of a retarget to the residents of a flat is
\* initiated, the stored visitor's flat is that flat, under every interleaving
\* with another request on the same visitor.
C28_DispatchReflectsStore ==
  [][(inflight.op = "retarget" /\ calls = << >> /\ calls' # << >>) =>
        visitors[inflight.body.id].flatNumber = inflight.body.flatNumber]_vars

C25_ListAll ==
  [][(last'.op = "allVisitors" /\ last'.code = 200 /\ UNCHANGED visitors) =>
        /\ {last'.data[i] : i \in 1..Len(last'.data)} = VisitorIds
        /\ Len(last'.data) = Len(visitors)
        /\ \A i \in 1..(Len(last'.data) - 1) :
              visitors[last'.data[i]].entryTime >= visitors[last'.data[i + 1]].entryTime]_vars

\* C25 witness: the visitor stored second entered later and is listed first.
C25_LaterEntryFirst ==
  /\ last.op = "allVisitors" /\ last.code = 200
  /\ last.data = <<2, 1>>
  /\ visitors[2].entryTime > visitors[1].entryTime

\* C23: GET /announcements/:role answers exactly the stored announcements whose
\* target is the role or all, each once, newest first.
C23_ListAnnouncements ==
  [][(/\ last'.op = "announcements" /\ last'.code = 200
      /\ UNCHANGED <<announcements, now, stepvars>>) =>
        /\ {last'.data[i] : i \in 1..Len(last'.data)} =
             {id \in 1..Len(announcements) :
                announcements[id].target \in {last'.flatNumber, "all"}}
        /\ Len(last'.data) =
             Cardinality({id \in 1..Len(announcements) :
                            announcements[id].target \in {last'.flatNumber, "all"}})
        /\ \A i \in 1..(Len(last'.data) - 1) :
              announcements[last'.data[i]].date >= announcements[last'.data[i + 1]].date]_vars

\* C23 witness: of an announcement for all, one for the guards and a later one
\* for the residents, the list of a resident holds the third, then the first.
C23_ResidentSeesOwnAndAll ==
  /\ last.op = "announcements" /\ last.code = 200 /\ last.flatNumber = "resident"
  /\ Len(announcements) = 3
  /\ announcements[1].target = "all" /\ announcements[2].target = "guard"
  /\ announcements[3].target = "resident"
  /\ announcements[3].date > announcements[1].date
  /\ last.data = <<3, 1>>

\* C26: registering, refreshing or clearing a push token for a userId that
\* resolves to no user answers 404, never a success, and changes no token; for
\* a known userId it sets that user's pushToken to the given token (or null)
\* and answers 200.
C26_TokenRoutes ==
  [][(last'.op \in {"updateToken", "logout", "updatePushToken"}
      /\ last'.fault = "none" /\ last'.id \notin {MalformedId, AbsentId}) =>
        IF last'.id \in DOMAIN users
        THEN /\ last'.code = 200
             /\ users' = [users EXCEPT ![last'.id].pushToken = last'.token]
        ELSE /\ last'.code = 404
             /\ users' = users]_vars

\* C31: PUT /visitor-response changes only status and approvalTime of the
\* addressed visitor: its entryTime, flatNumber, purpose, name and mobile and
\* every other visitor are unchanged; and no step of any route changes the
\* entryTime of a stored visitor.
C31_StatusFrame ==
  [][/\ (HandlerStep /\ last'.op = "status") =>
          /\ Len(visitors') = Len(visitors)
          /\ \A i \in VisitorIds :
                /\ i # last'.id => visitors'[i] = visitors[i]
                /\ visitors'[i].flatNumber = visitors[i].flatNumber
                /\ visitors'[i].purpose = visitors[i].purpose
                /\ visitors'[i].name = visitors[i].name
                /\ visitors'[i].mobile = visitors[i].mobile
     /\ \A i \in VisitorIds :
           /\ i \in 1..Len(visitors')
           /\ visitors'[i].entryTime = visitors[i].entryTime]_vars

\* C31 witness: a visitor moved to another flat for another purpose has been
\* approved at a later time; it keeps that flat, that purpose and its
\* entryTime, beside another visitor on file.
C31_RetargetedThenApproved ==
  /\ last.op = "status" /\ last.code = 200 /\ last.status = "Approved"
  /\ last.id \in VisitorIds /\ Len(visitors) > 1
  /\ last.prev # NoData /\ last.prev[1].status = "Pending"
  /\ visitors[last.id].purpose = "p2"
  /\ visitors[last.id].flatNumber = last.prev[1].flatNumber
  /\ visitors[last.id].approvalTime = now
  /\ visitors[last.id].entryTime < now

\* a status update on the visitor of the retarget in flight has been answered
\* since that retarget was received, and the retarget's own write is done
BothWritten ==
  /\ inflight.op = "retarget" /\ inflight.pc \in {"findOne", "send"}
  /\ last.op = "status" /\ last.code = 200 /\ last.data # NoData
  /\ last.id = inflight.body.id

\* C32: a retarget and a status update issued concurrently on one visitor
\* commute: whichever write lands first, the stored record carries the flat
\* and purpose of the retarget and the status and approvalTime of the status
\* update.
C32_WritesCommute ==
  BothWritten =>
    /\ visitors[last.id].flatNumber = inflight.body.flatNumber
    /\ visitors[last.id].purpose = inflight.body.purpose
    /\ visitors[last.id].status = last.status
    /\ visitors[last.id].approvalTime = last.data[1].approvalTime
    /\ last.status \in Decisions => visitors[last.id].approvalTime # NoTime

\* C32 witness: the approval landed between the receipt of the retarget and
\* its write (the approved document answered still shows the old flat); the
\* stored record has the new flat and purpose and is Approved with its time.
C32_StatusFirstThenRetarget ==
  /\ BothWritten
  /\ last.status = "Approved"
  /\ last.data[1].flatNumber # inflight.body.flatNumber
  /\ visitors[last.id].flatNumber = inflight.body.flatNumber
  /\ visitors[last.id].purpose = "p2"
  /\ visitors[last.id].status = "Approved"
  /\ visitors[last.id].approvalTime # NoTime
====
